---- MODULE Spec2Model ----
(***************************************************************************)
(* The IPv6 network layer of KallistiOS, kernel/net/net_ipv6.c.            *)
(*                                                                         *)
(* State: the file-static statistics ipv6_stats, the process-wide default  *)
(* device net_default_dev, errno, and a record of the last API call (its   *)
(* arguments, its return value and the calls it made to its collaborators: *)
(* net_ipv6_input, net_ndp_lookup, the interface's if_tx, net_icmp6_input).*)
(* One action per API function; the outcome of a collaborator is an input   *)
(* of the action.  The multicast groups joined through net_multicast_add   *)
(* and net_multicast_del are in multicasts, the joins and leaves of the    *)
(* last call in mc_calls; life remembers the last net_ipv6_init and        *)
(* snapshot the last value net_ipv6_get_stats returned.  completed counts  *)
(* the calls of net_ipv6_send_packet that found an interface.  race holds  *)
(* the position of an application thread inside net_ipv6_send_packet and   *)
(* of an interrupt handler inside net_ipv6_input when the two run at once. *)
(***************************************************************************)
EXTENDS Integers, Sequences, FiniteSets, TLC

VARIABLES ipv6_stats, net_default_dev, errno, call, multicasts, mc_calls, life, snapshot,
          completed, race

vars == <<ipv6_stats, net_default_dev, errno, call, multicasts, mc_calls, life, snapshot,
          completed, race>>

\* Bound of the model: the three statistics counters together stay below it.
MaxPkts == 2

\* Bound of the model: where every function of the API is called, the three
\* counters together stay below it.
MaxPktsAll == 1

\* Bound of the model: net_ipv6_init is not called once this many groups are joined.
MaxGroups == 3

(***************************************************************************)
(* Byte buffers.  A buffer is its length and its non-zero bytes, each with *)
(* its 1-based offset: a long zero-filled payload stays small.             *)
(***************************************************************************)
FromSeq(s) ==
    [len |-> Len(s),
     nz  |-> {<<i, s[i]>> : i \in {j \in 1..Len(s) : s[j] # 0}}]

Zeros(n) == [len |-> n, nz |-> {}]

At(b, i) ==
    IF \E p \in b.nz : p[1] = i
    THEN (CHOOSE p \in b.nz : p[1] = i)[2]
    ELSE 0

\* memcpy(a + a.len, b, b.len): b's bytes right after a's
Cat(a, b) ==
    [len |-> a.len + b.len,
     nz  |-> a.nz \cup {<<p[1] + a.len, p[2]>> : p \in b.nz}]

\* the bytes at offsets i..j of b, as a buffer of j - i + 1 bytes
Slice(b, i, j) ==
    [len |-> IF j >= i THEN j - i + 1 ELSE 0,
     nz  |-> {<<p[1] - i + 1, p[2]>> : p \in {q \in b.nz : q[1] >= i /\ q[1] <= j}}]

\* the first n bytes of a caller's buffer (what memcpy(.., data, n) reads)
Take(b, n) == Slice(b, 1, n)

ToSeq(b) == [i \in 1..b.len |-> At(b, i)]

(***************************************************************************)
(* Integer widths and byte order (the host, an SH-4, is little-endian).    *)
(***************************************************************************)
ToU8(x) == x % 256

ToU16(x) == x % 65536

\* x < n where x is an int and n a size_t no larger than INT_MAX: x converts
\* to size_t, and a negative x becomes a value above INT_MAX
size_t_less(x, n) == x >= 0 /\ x < n

bswap16(w) == (w % 256) * 256 + (w \div 256)

\* ntohs takes a uint16_t: an int argument is cut to 16 bits, then byte-swapped
ntohs(x) == bswap16(ToU16(x))

\* the two bytes a uint16 field holds in memory
StoreU16(w) == <<w % 256, w \div 256>>

\* the uint16 read from two bytes of memory
LoadU16(b0, b1) == b0 + 256 * b1

(***************************************************************************)
(* Types of the surrounding stack.                                         *)
(***************************************************************************)
NULL == "NULL"

ENETUNREACH == "ENETUNREACH"

NETIF_BLOCK == "NETIF_BLOCK"

\* the next-header value of ICMPv6
IPV6_HDR_ICMP == 58

\* sizeof(ipv6_hdr_t): version_lclass, hclass_lflow, lclass, length,
\* next_header, hop_limit, src_addr, dst_addr (packed)
sizeof_ipv6_hdr_t == 1 + 1 + 2 + 2 + 1 + 1 + 16 + 16

\* sizeof(eth_hdr_t): dest, src, type
sizeof_eth_hdr_t == 6 + 6 + 2

in6addr_loopback == <<0, 0, 0, 0, 0, 0, 0, 0, 0, 0, 0, 0, 0, 0, 0, 1>>

in6addr_linklocal_allnodes == <<255, 2, 0, 0, 0, 0, 0, 0, 0, 0, 0, 0, 0, 0, 0, 1>>

IN6_IS_ADDR_LOOPBACK(a) == a = in6addr_loopback

IN6_IS_ADDR_MULTICAST(a) == a[1] = 255

\* fe80::/10: first byte 0xFE, top two bits of the second byte 10
IN6_IS_ADDR_LINKLOCAL(a) == a[1] = 254 /\ (a[2] \div 64) = 2

\* the bytes of an ipv6_hdr_t in memory, as memcpy(pkt, hdr, sizeof) copies them
hdr_bytes(hdr) ==
    FromSeq(<<hdr.version_lclass, hdr.hclass_lflow>>
            \o StoreU16(hdr.lclass)
            \o StoreU16(hdr.length)
            \o <<hdr.next_header, hdr.hop_limit>>
            \o hdr.src_addr
            \o hdr.dst_addr)

\* ip = (ipv6_hdr_t *)pkt: the header fields read through the overlay
hdr_overlay(pkt) ==
    [version_lclass |-> At(pkt, 1),
     hclass_lflow   |-> At(pkt, 2),
     lclass         |-> LoadU16(At(pkt, 3), At(pkt, 4)),
     length         |-> LoadU16(At(pkt, 5), At(pkt, 6)),
     next_header    |-> At(pkt, 7),
     hop_limit      |-> At(pkt, 8),
     src_addr       |-> [i \in 1..16 |-> At(pkt, 8 + i)],
     dst_addr       |-> [i \in 1..16 |-> At(pkt, 24 + i)]]

(***************************************************************************)
(* The network interfaces (netif_t) the stack holds.  The layer only reads *)
(* their fields and calls their if_tx.                                     *)
(***************************************************************************)
\* a struct in6_addr from its eight 16-bit groups
In6(h) ==
    [i \in 1..16 |-> IF i % 2 = 1 THEN h[(i + 1) \div 2] \div 256
                                  ELSE h[i \div 2] % 256]

Netifs == {"bba", "lan"}

NetIf ==
    [n \in Netifs |->
        IF n = "bba"
        THEN [mac_addr       |-> <<0, 208, 240, 18, 52, 86>>,
              ip6_lladdr     |-> In6(<<65152, 0, 0, 0, 720, 61695, 65042, 13398>>),
              ip6_addrs      |-> <<In6(<<8193, 3512, 0, 1, 0, 0, 0, 16>>),
                                   In6(<<8193, 3512, 0, 2, 0, 0, 0, 16>>)>>,
              ip6_addr_count |-> 2,
              ip6_gateway    |-> In6(<<65152, 0, 0, 0, 0, 0, 0, 1>>),
              hop_limit      |-> 64,
              mtu6           |-> 1500]
        ELSE [mac_addr       |-> <<2, 0, 0, 0, 0, 9>>,
              ip6_lladdr     |-> In6(<<65152, 0, 0, 0, 0, 0, 0, 9>>),
              ip6_addrs      |-> <<>>,
              ip6_addr_count |-> 0,
              ip6_gateway    |-> In6(<<8193, 3512, 0, 9, 0, 0, 0, 1>>),
              hop_limit      |-> 0,
              mtu6           |-> 1500]]

(***************************************************************************)
(* The outcome of one call: its return value, the statistics and errno it  *)
(* leaves, and the calls it made to its collaborators, in order.           *)
(***************************************************************************)
Outcome(ret, stats, en, input_calls, ndp_calls, tx_calls, icmp_calls) ==
    [ret         |-> ret,
     stats       |-> stats,
     errno       |-> en,
     input_calls |-> input_calls,
     ndp_calls   |-> ndp_calls,
     tx_calls    |-> tx_calls,
     icmp_calls  |-> icmp_calls]

(***************************************************************************)
(* net_ipv6_input.  icmp_ret is what net_icmp6_input returns if called.    *)
(***************************************************************************)
input_too_small_uncounted(stats, en) ==
    Outcome(-1, stats, en, <<>>, <<>>, <<>>, <<>>)

\* pktsize < sizeof(ipv6_hdr_t): count the packet and drop it
input_too_small(stats, en) ==
    Outcome(-1, [stats EXCEPT !.pkt_recv_bad_size = @ + 1], en,
            <<>>, <<>>, <<>>, <<>>)

input_length_mismatch_counted_twice(stats, en) ==
    Outcome(-1, [stats EXCEPT !.pkt_recv_bad_size = @ + 2], en,
            <<>>, <<>>, <<>>, <<>>)

\* pktsize < len + sizeof(ipv6_hdr_t): count the packet and drop it
input_length_mismatch(stats, en) ==
    Outcome(-1, [stats EXCEPT !.pkt_recv_bad_size = @ + 1], en,
            <<>>, <<>>, <<>>, <<>>)

input_dispatch_rest_of_buffer(stats, en, src, ip, pkt, pktsize, len, icmp_ret) ==
    IF ip.next_header = IPV6_HDR_ICMP
    THEN Outcome(icmp_ret, stats, en, <<>>, <<>>, <<>>,
                 <<[src  |-> src,
                    ip   |-> ip,
                    data |-> Slice(pkt, sizeof_ipv6_hdr_t + 1, pktsize),
                    size |-> pktsize - sizeof_ipv6_hdr_t,
                    ret  |-> icmp_ret]>>)
    ELSE Outcome(-1, stats, en, <<>>, <<>>, <<>>, <<>>)

\* switch(next_hdr): net_icmp6_input(src, ip, pkt + sizeof(ipv6_hdr_t), len)
\* for ICMPv6, -1 for anything else
input_dispatch(stats, en, src, ip, pkt, pktsize, len, icmp_ret) ==
    IF ip.next_header = IPV6_HDR_ICMP
    THEN Outcome(icmp_ret, stats, en, <<>>, <<>>, <<>>,
                 <<[src  |-> src,
                    ip   |-> ip,
                    data |-> Slice(pkt, sizeof_ipv6_hdr_t + 1,
                                   sizeof_ipv6_hdr_t + len),
                    size |-> len,
                    ret  |-> icmp_ret]>>)
    ELSE Outcome(-1, stats, en, <<>>, <<>>, <<>>, <<>>)

net_ipv6_input(stats, en, src, pkt, pktsize, icmp_ret) ==
    IF size_t_less(pktsize, sizeof_ipv6_hdr_t)
    THEN input_too_small(stats, en)
    ELSE LET ip  == hdr_overlay(pkt)
             len == ntohs(ip.length)
         IN  IF size_t_less(pktsize, len + sizeof_ipv6_hdr_t)
             THEN input_length_mismatch(stats, en)
             ELSE input_dispatch(stats, en, src, ip, pkt, pktsize, len, icmp_ret)

(***************************************************************************)
(* net_ipv6_send_packet, in the order of its code.                         *)
(***************************************************************************)
\* for(i = 0; i < net->ip6_addr_count; ++i) if(!memcmp(ip, &addrs[i], 8))
RECURSIVE prefix_loop(_, _, _)
prefix_loop(net, ip, i) ==
    IF i > NetIf[net].ip6_addr_count
    THEN 0
    ELSE IF SubSeq(ip, 1, 8) = SubSeq(NetIf[net].ip6_addrs[i], 1, 8)
         THEN 1
         ELSE prefix_loop(net, ip, i + 1)

is_in_network_first_only(net, ip) ==
    IF IN6_IS_ADDR_LINKLOCAL(ip)
    THEN 1
    ELSE IF NetIf[net].ip6_addr_count > 0
            /\ SubSeq(ip, 1, 8) = SubSeq(NetIf[net].ip6_addrs[1], 1, 8)
         THEN 1
         ELSE 0

is_in_network(net, ip) ==
    IF IN6_IS_ADDR_LINKLOCAL(ip) THEN 1 ELSE prefix_loop(net, ip, 1)

select_dev_no_default(net, default_dev) == net

\* if(!net) net = net_default_dev;   (NULL when there is no default either)
select_dev(net, default_dev) ==
    IF net = NULL THEN default_dev ELSE net

send_loopback_uncounted(stats, en, hdr, data, data_size, env) ==
    LET pkt == Cat(hdr_bytes(hdr), Take(data, data_size))
        in  == net_ipv6_input(stats, en, NULL, pkt, sizeof_ipv6_hdr_t + data_size,
                              env.icmp_ret)
    IN  Outcome(0, in.stats, in.errno,
                <<[src     |-> NULL,
                   pkt     |-> pkt,
                   pktsize |-> sizeof_ipv6_hdr_t + data_size,
                   ret     |-> in.ret]>>,
                <<>>, <<>>, in.icmp_calls)

\* the loopback branch returning what net_ipv6_input returned
send_loopback_returns_input_result(stats, en, hdr, data, data_size, env) ==
    LET pkt == Cat(hdr_bytes(hdr), Take(data, data_size))
        st  == [stats EXCEPT !.pkt_sent = @ + 1]
        in  == net_ipv6_input(st, en, NULL, pkt, sizeof_ipv6_hdr_t + data_size,
                              env.icmp_ret)
    IN  Outcome(in.ret, in.stats, in.errno,
                <<[src     |-> NULL,
                   pkt     |-> pkt,
                   pktsize |-> sizeof_ipv6_hdr_t + data_size,
                   ret     |-> in.ret]>>,
                <<>>, <<>>, in.icmp_calls)

\* the loopback branch: the header and the payload go to net_ipv6_input
send_loopback(stats, en, hdr, data, data_size, env) ==
    LET pkt == Cat(hdr_bytes(hdr), Take(data, data_size))
        st  == [stats EXCEPT !.pkt_sent = @ + 1]
        in  == net_ipv6_input(st, en, NULL, pkt, sizeof_ipv6_hdr_t + data_size,
                              env.icmp_ret)
    IN  Outcome(0, in.stats, in.errno,
                <<[src     |-> NULL,
                   pkt     |-> pkt,
                   pktsize |-> sizeof_ipv6_hdr_t + data_size,
                   ret     |-> in.ret]>>,
                <<>>, <<>>, in.icmp_calls)

multicast_mac_off_by_one(hdr) ==
    <<51, 51, hdr.dst_addr[12], hdr.dst_addr[13], hdr.dst_addr[14],
      hdr.dst_addr[15]>>

\* the multicast branch: dst_mac from the destination address
multicast_mac(hdr) ==
    <<51, 51, hdr.dst_addr[13], hdr.dst_addr[14], hdr.dst_addr[15],
      hdr.dst_addr[16]>>

\* the address handed to net_ndp_lookup: dst, or the gateway when off-link
ndp_target(net, dst) ==
    IF is_in_network(net, dst) = 0 THEN NetIf[net].ip6_gateway ELSE dst

\* the record of the call net_ndp_lookup(net, &dst, dst_mac, hdr, data, size)
ndp_call(net, dst, hdr, data, data_size, env) ==
    [net       |-> net,
     ip        |-> dst,
     hdr       |-> hdr,
     data      |-> Take(data, data_size),
     data_size |-> data_size,
     mac       |-> env.ndp_mac,
     ret       |-> env.ndp_err]

ndp_unreachable_no_errno(stats, en, err, ndp_calls) ==
    Outcome(err, [stats EXCEPT !.pkt_send_failed = @ + 1], en,
            <<>>, ndp_calls, <<>>, <<>>)

\* err == -1
ndp_unreachable(stats, en, err, ndp_calls) ==
    Outcome(err, [stats EXCEPT !.pkt_send_failed = @ + 1], ENETUNREACH,
            <<>>, ndp_calls, <<>>, <<>>)

ndp_pending_uncounted(stats, en, err, ndp_calls) ==
    Outcome(err, stats, en, <<>>, ndp_calls, <<>>, <<>>)

\* err == -2
ndp_pending(stats, en, err, ndp_calls) ==
    Outcome(err, [stats EXCEPT !.pkt_send_failed = @ + 1], en,
            <<>>, ndp_calls, <<>>, <<>>)

eth_frame_macs_swapped(net, dst_mac, hdr, data, data_size) ==
    Cat(Cat(FromSeq(NetIf[net].mac_addr \o dst_mac \o <<134, 221>>),
            hdr_bytes(hdr)),
        Take(data, data_size))

\* the ethernet header, then the IPv6 header and the payload
eth_frame(net, dst_mac, hdr, data, data_size) ==
    Cat(Cat(FromSeq(dst_mac \o NetIf[net].mac_addr \o <<134, 221>>),
            hdr_bytes(hdr)),
        Take(data, data_size))

\* the transmit step counting a failed if_tx in pkt_send_failed as well
transmit_counts_tx_failure(stats, en, net, frame, data_size, env, ndp_calls) ==
    Outcome(0,
            [stats EXCEPT !.pkt_sent = @ + 1,
                          !.pkt_send_failed = IF env.tx_ret = 0 THEN @ ELSE @ + 1],
            en,
            <<>>, ndp_calls,
            <<[net  |-> net,
               data |-> frame,
               len  |-> sizeof_ipv6_hdr_t + data_size + sizeof_eth_hdr_t,
               mode |-> NETIF_BLOCK,
               ret  |-> env.tx_ret]>>,
            <<>>)

\* ++pkt_sent; net->if_tx(net, pkt, size, NETIF_BLOCK); return 0;
transmit(stats, en, net, frame, data_size, env, ndp_calls) ==
    Outcome(0, [stats EXCEPT !.pkt_sent = @ + 1], en,
            <<>>, ndp_calls,
            <<[net  |-> net,
               data |-> frame,
               len  |-> sizeof_ipv6_hdr_t + data_size + sizeof_eth_hdr_t,
               mode |-> NETIF_BLOCK,
               ret  |-> env.tx_ret]>>,
            <<>>)

net_ipv6_send_packet(stats, en, default_dev, net_arg, hdr, data, data_size, env) ==
    LET net == select_dev(net_arg, default_dev)
        dst == hdr.dst_addr
    IN  IF net = NULL
        THEN Outcome(-1, stats, en, <<>>, <<>>, <<>>, <<>>)
        ELSE IF IN6_IS_ADDR_LOOPBACK(hdr.dst_addr)
        THEN send_loopback(stats, en, hdr, data, data_size, env)
        ELSE IF IN6_IS_ADDR_MULTICAST(hdr.dst_addr)
        THEN transmit(stats, en, net,
                      eth_frame(net, multicast_mac(hdr), hdr, data, data_size),
                      data_size, env, <<>>)
        ELSE LET ndp == <<ndp_call(net, ndp_target(net, dst), hdr, data,
                                   data_size, env)>>
                 err == env.ndp_err
             IN  IF err = -1
                 THEN ndp_unreachable(stats, en, err, ndp)
                 ELSE IF err = -2
                 THEN ndp_pending(stats, en, err, ndp)
                 ELSE transmit(stats, en, net,
                               eth_frame(net, env.ndp_mac, hdr, data, data_size),
                               data_size, env, ndp)

(***************************************************************************)
(* net_ipv6_send: the header, then net_ipv6_send_packet.                   *)
(***************************************************************************)
\* hdr.hop_limit is a uint8: the int stored in it is cut to 8 bits
select_hop_limit(hop_limit, net) ==
    IF hop_limit # 0
    THEN ToU8(hop_limit)
    ELSE IF NetIf[net].hop_limit # 0
         THEN ToU8(NetIf[net].hop_limit)
         ELSE 255

build_hdr(net, data_size, hop_limit, proto, src, dst) ==
    [version_lclass |-> 96,
     hclass_lflow   |-> 0,
     lclass         |-> 0,
     length         |-> ntohs(data_size),
     next_header    |-> ToU8(proto),
     hop_limit      |-> select_hop_limit(hop_limit, net),
     src_addr       |-> src,
     dst_addr       |-> dst]

net_ipv6_send(stats, en, default_dev, net_arg, data, data_size, hop_limit, proto, src, dst, env) ==
    LET net == select_dev(net_arg, default_dev)
    IN  IF net = NULL
        THEN Outcome(-1, stats, en, <<>>, <<>>, <<>>, <<>>)
        ELSE net_ipv6_send_packet(stats, en, default_dev, net,
                                  build_hdr(net, data_size, hop_limit, proto,
                                            src, dst),
                                  data, data_size, env)

(***************************************************************************)
(* The counter increments of a call, one by one.  ++ipv6_stats.c is a load *)
(* of the counter and, later, a store of the loaded value plus one.        *)
(***************************************************************************)
load_counter(stats, c) == stats[c]

\* the store adding one to the counter as it is at the time of the store
store_counter_atomic(stats, c, tmp) == [stats EXCEPT ![c] = @ + 1]

store_counter(stats, c, tmp) == [stats EXCEPT ![c] = tmp + 1]

\* the counters net_ipv6_input increments, in the order of the code
input_increments(pkt, pktsize) ==
    IF size_t_less(pktsize, sizeof_ipv6_hdr_t)
    THEN <<"pkt_recv_bad_size">>
    ELSE IF size_t_less(pktsize, ntohs(hdr_overlay(pkt).length) + sizeof_ipv6_hdr_t)
    THEN <<"pkt_recv_bad_size">>
    ELSE <<>>

\* the counters net_ipv6_send_packet increments, in the order of the code;
\* those of the loopback branch include the ones of its net_ipv6_input
send_packet_increments(default_dev, net_arg, hdr, data, data_size, env) ==
    LET net == select_dev(net_arg, default_dev)
    IN  IF net = NULL
        THEN <<>>
        ELSE IF IN6_IS_ADDR_LOOPBACK(hdr.dst_addr)
        THEN <<"pkt_sent">>
             \o input_increments(Cat(hdr_bytes(hdr), Take(data, data_size)),
                                 sizeof_ipv6_hdr_t + data_size)
        ELSE IF IN6_IS_ADDR_MULTICAST(hdr.dst_addr)
        THEN <<"pkt_sent">>
        ELSE IF env.ndp_err = -1 \/ env.ndp_err = -2
        THEN <<"pkt_send_failed">>
        ELSE <<"pkt_sent">>

(***************************************************************************)
(* net_ipv6_get_stats.                                                     *)
(***************************************************************************)
\* returns the counters and clears them
net_ipv6_get_stats_and_clear(stats, en) ==
    Outcome(stats,
            [pkt_sent |-> 0, pkt_send_failed |-> 0, pkt_recv_bad_size |-> 0],
            en, <<>>, <<>>, <<>>, <<>>)

\* return ipv6_stats: the structure is returned by value
net_ipv6_get_stats(stats, en) ==
    Outcome(stats, stats, en, <<>>, <<>>, <<>>, <<>>)

(***************************************************************************)
(* net_ipv6_checksum_pseudo.                                               *)
(***************************************************************************)
\* sizeof(ipv6_pseudo_hdr_t): src_addr, dst_addr, upper_layer_len, zero,
\* next_header (packed)
sizeof_ipv6_pseudo_hdr_t == 16 + 16 + 4 + 3 + 1

\* the four bytes a uint32 field holds in memory
StoreU32(w) ==
    <<w % 256, (w \div 256) % 256, (w \div 65536) % 256, (w \div 16777216) % 256>>

\* the four bytes the uint32 htonl(x) holds in memory: those of x, reversed
htonl_bytes(x) ==
    LET b == StoreU32(x) IN <<b[4], b[3], b[2], b[1]>>

RECURSIVE word_sum(_, _, _)
\* the sum of the first n 16-bit words of b, from word i on, each read as the
\* host reads a uint16
word_sum(b, i, n) ==
    IF i > n THEN 0
    ELSE LoadU16(At(b, 2 * i - 1), At(b, 2 * i)) + word_sum(b, i + 1, n)

RECURSIVE fold_carry(_)
\* while(sum >> 16) sum = (sum >> 16) + (sum & 0xFFFF)
fold_carry(sum) ==
    IF sum \div 65536 = 0 THEN sum
    ELSE fold_carry((sum \div 65536) + (sum % 65536))

\* the Internet checksum primitive of the IPv4 layer: the ones'-complement
\* sum of the 16-bit words (and of a last odd byte), started at start,
\* complemented
net_ipv4_checksum(data, bytes, start) ==
    LET odd == IF bytes % 2 = 1 THEN At(data, bytes) ELSE 0
        sum == start + word_sum(data, 1, bytes \div 2) + odd
    IN  65535 - fold_carry(sum)

\* the pseudo-header with upper_layer_len left in host byte order
pseudo_hdr_bytes_host_order(src, dst, upper_len, next_hdr) ==
    FromSeq(src \o dst \o StoreU32(upper_len) \o <<0, 0, 0>> \o <<ToU8(next_hdr)>>)

\* the bytes of ps in memory: zero-initialised, then the two addresses,
\* htonl(upper_len) and the next header
pseudo_hdr_bytes(src, dst, upper_len, next_hdr) ==
    FromSeq(src \o dst \o htonl_bytes(upper_len) \o <<0, 0, 0>> \o <<ToU8(next_hdr)>>)

\* the checksum started at the number of packets sent so far
net_ipv6_checksum_pseudo_seeded_by_stats(stats, en, src, dst, upper_len, next_hdr) ==
    Outcome(ToU16(65535 - net_ipv4_checksum(pseudo_hdr_bytes(src, dst, upper_len, next_hdr),
                                            sizeof_ipv6_pseudo_hdr_t,
                                            stats.pkt_sent)),
            stats, en, <<>>, <<>>, <<>>, <<>>)

\* return ~net_ipv4_checksum((uint8 *)&ps, sizeof(ipv6_pseudo_hdr_t), 0),
\* cut to the uint16 the function returns
net_ipv6_checksum_pseudo(stats, en, src, dst, upper_len, next_hdr) ==
    Outcome(ToU16(65535 - net_ipv4_checksum(pseudo_hdr_bytes(src, dst, upper_len, next_hdr),
                                            sizeof_ipv6_pseudo_hdr_t,
                                            0)),
            stats, en, <<>>, <<>>, <<>>, <<>>)

(***************************************************************************)
(* net_ipv6_init and net_ipv6_shutdown.                                    *)
(***************************************************************************)
\* LIST_INSERT_HEAD: one more membership of the group
net_multicast_add(list, mac) == <<mac>> \o list

RECURSIVE net_multicast_del(_, _)
\* the first membership of the group is removed, if there is one
net_multicast_del(list, mac) ==
    IF list = <<>> THEN <<>>
    ELSE IF Head(list) = mac THEN Tail(list)
    ELSE <<Head(list)>> \o net_multicast_del(Tail(list), mac)

\* uint8 mac[6] = { 0x33, 0x33, 0x00, 0x00, 0x00, 0x01 }
all_nodes_mac == <<51, 51, 0, 0, 0, 1>>

\* the solicited-node group built from bytes 12, 13 and 14 of the address
init_solicited_mac_shifted(lladdr) ==
    <<51, 51, 255, lladdr[13], lladdr[14], lladdr[15]>>

\* mac[2] = 0xFF; mac[3..5] = ip6_lladdr.s6_addr[13..15]
init_solicited_mac(lladdr) ==
    <<51, 51, 255, lladdr[14], lladdr[15], lladdr[16]>>

\* the solicited-node group without mac[2] = 0xFF
shutdown_solicited_mac_no_ff(lladdr) ==
    <<51, 51, 0, lladdr[14], lladdr[15], lladdr[16]>>

\* mac[2] = 0xFF; mac[3..5] = ip6_lladdr.s6_addr[13..15]
shutdown_solicited_mac(lladdr) ==
    <<51, 51, 255, lladdr[14], lladdr[15], lladdr[16]>>

\* the two joins of net_ipv6_init, in the order of the code, and return 0
net_ipv6_init(list, lladdr) ==
    LET first  == all_nodes_mac
        second == init_solicited_mac(lladdr)
    IN  [ret        |-> 0,
         multicasts |-> net_multicast_add(net_multicast_add(list, first), second),
         mc_calls   |-> <<[op |-> "net_multicast_add", mac |-> first],
                          [op |-> "net_multicast_add", mac |-> second]>>]

\* the two leaves of net_ipv6_shutdown, in the order of the code
net_ipv6_shutdown(list, lladdr) ==
    LET first  == all_nodes_mac
        second == shutdown_solicited_mac(lladdr)
    IN  [multicasts |-> net_multicast_del(net_multicast_del(list, first), second),
         mc_calls   |-> <<[op |-> "net_multicast_del", mac |-> first],
                          [op |-> "net_multicast_del", mac |-> second]>>]

\* what a read of net_default_dev->ip6_lladdr can yield when net_default_dev
\* is NULL and the read does not fault
NullReads ==
    {[i \in 1..16 |-> 0], [i \in 1..16 |-> 255 - i]}

\* net_default_dev->ip6_lladdr
default_lladdr(default_dev, null_read) ==
    IF default_dev = NULL THEN null_read ELSE NetIf[default_dev].ip6_lladdr

(***************************************************************************)
(* The inputs of the calls.                                                *)
(***************************************************************************)
OnLinkFirst  == In6(<<8193, 3512, 0, 1, 43981, 0, 0, 153>>)
OnLinkSecond == In6(<<8193, 3512, 0, 2, 0, 0, 0, 153>>)
NearPrefix   == In6(<<8193, 3512, 0, 3, 0, 0, 0, 16>>)
OffLink      == In6(<<9728, 0, 0, 0, 0, 0, 0, 1>>)
LinkLocalLow == In6(<<65152, 0, 0, 0, 0, 0, 0, 7>>)
LinkLocalTop == In6(<<65215, 65535, 0, 0, 0, 0, 0, 7>>)
SiteLocal    == In6(<<65216, 0, 0, 0, 0, 0, 0, 7>>)
McastGroup   == In6(<<65285, 0, 0, 0, 0, 1, 43707, 52445>>)

UnicastDests ==
    {OnLinkFirst, OnLinkSecond, NearPrefix, OffLink, LinkLocalLow,
     LinkLocalTop, SiteLocal}

MulticastDests == {in6addr_linklocal_allnodes, McastGroup}

Dests == {in6addr_loopback} \cup MulticastDests \cup UnicastDests

SrcAddr == In6(<<8193, 3512, 0, 1, 0, 0, 0, 16>>)

NoPayload == Zeros(0)

Ping == FromSeq(<<80, 73, 78, 71>>)

\* a payload of 65536 + 4 bytes
Jumbo == [len |-> 65540, nz |-> {<<1, 74>>, <<65540, 79>>}]

MacA == <<0, 17, 34, 51, 68, 85>>
MacB == <<2, 0, 0, 170, 187, 204>>

\* what the collaborators answer during one call: net_ndp_lookup (its status
\* and the address it writes to dst_mac), if_tx and net_icmp6_input
Envs ==
    {[ndp_err |-> 0,  ndp_mac |-> MacA, tx_ret |-> 0,  icmp_ret |-> 0],
     [ndp_err |-> 0,  ndp_mac |-> MacB, tx_ret |-> -1, icmp_ret |-> -1],
     [ndp_err |-> -1, ndp_mac |-> MacA, tx_ret |-> 0,  icmp_ret |-> 0],
     [ndp_err |-> -2, ndp_mac |-> MacA, tx_ret |-> 0,  icmp_ret |-> 0]}

NetArgs == {NULL} \cup Netifs

SendArg(net, data, hop_limit, proto, dst) ==
    [net |-> net, data |-> data, hop_limit |-> hop_limit, proto |-> proto,
     dst |-> dst]

\* the argument lists of net_ipv6_send
SendArgs ==
    {SendArg(n, d, 0, IPV6_HDR_ICMP, a) :
        n \in NetArgs, d \in {NoPayload, Ping}, a \in Dests}
    \cup {SendArg(n, Ping, h, IPV6_HDR_ICMP, in6addr_linklocal_allnodes) :
        n \in NetArgs, h \in {5, 255, 256}}
    \cup {SendArg("bba", Ping, 0, 17, a) :
        a \in {in6addr_loopback, in6addr_linklocal_allnodes}}
    \cup {SendArg("bba", Jumbo, 0, IPV6_HDR_ICMP, a) :
        a \in {in6addr_loopback, in6addr_linklocal_allnodes, OnLinkFirst}}

\* a header as a caller of net_ipv6_send_packet fills it
CallerHdr(len, next_header, dst) ==
    [version_lclass |-> 96,
     hclass_lflow   |-> 0,
     lclass         |-> 0,
     length         |-> ntohs(len),
     next_header    |-> next_header,
     hop_limit      |-> 64,
     src_addr       |-> SrcAddr,
     dst_addr       |-> dst]

PacketArg(net, hdr, data) == [net |-> net, hdr |-> hdr, data |-> data]

\* the argument lists of net_ipv6_send_packet
PacketArgs ==
    {PacketArg(n, CallerHdr(Ping.len, IPV6_HDR_ICMP, a), Ping) :
        n \in NetArgs, a \in Dests}
    \cup {PacketArg(n, CallerHdr(l, h, in6addr_loopback), Ping) :
        n \in NetArgs, l \in {2, 100}, h \in {IPV6_HDR_ICMP, 17}}
    \cup {PacketArg(n, CallerHdr(0, 17, in6addr_linklocal_allnodes), NoPayload) :
        n \in NetArgs}

\* a received packet: a header and what follows it, cut to size bytes
RecvPkt(len, next_header, body, size) ==
    Take(Cat(hdr_bytes(CallerHdr(len, next_header, in6addr_linklocal_allnodes)),
             body), size)

\* the buffers handed to net_ipv6_input by a driver
InputPkts ==
    {Zeros(0), RecvPkt(0, IPV6_HDR_ICMP, NoPayload, 39),
     RecvPkt(100, IPV6_HDR_ICMP, Cat(Ping, Zeros(6)), 50),
     RecvPkt(4, IPV6_HDR_ICMP, Ping, 44),
     RecvPkt(2, IPV6_HDR_ICMP, Ping, 44),
     RecvPkt(4, 17, Ping, 44),
     RecvPkt(100, 17, Cat(Ping, Zeros(6)), 50),
     RecvPkt(0, IPV6_HDR_ICMP, NoPayload, 40),
     RecvPkt(0, 17, Ping, 44)}

ChecksumArgs ==
    [src       : {SrcAddr, in6addr_loopback},
     dst       : {in6addr_linklocal_allnodes, OnLinkFirst},
     upper_len : {0, 4, 1280, 65540, 16909060},
     next_hdr  : {IPV6_HDR_ICMP, 17}]

(***************************************************************************)
(* State and actions.                                                      *)
(***************************************************************************)
NoStats == [pkt_sent |-> 0, pkt_send_failed |-> 0, pkt_recv_bad_size |-> 0]

NoHdr == "none"

NoOutcome == Outcome(0, NoStats, "none", <<>>, <<>>, <<>>, <<>>)

NoArgs == "none"

\* the record of a call: what was passed, the device it selected, the
\* statistics and errno before it, and its outcome
CallRec(op, net, args, hdr, data, pre, pre_errno, out) ==
    [op        |-> op,
     net       |-> net,
     args      |-> args,
     dev       |-> select_dev(net, net_default_dev),
     hdr       |-> hdr,
     data      |-> data,
     pre       |-> pre,
     pre_errno |-> pre_errno,
     out       |-> out]

Counted == ipv6_stats.pkt_sent + ipv6_stats.pkt_send_failed
           + ipv6_stats.pkt_recv_bad_size

\* before the first net_ipv6_init
NoLife ==
    [phase         |-> "none",
     dev           |-> NULL,
     before        |-> <<>>,
     joins         |-> <<>>,
     reinit        |-> FALSE,
     paired        |-> FALSE]

\* neither the application thread nor the interrupt handler is in a call
NoRace ==
    [thr  |-> [pc |-> "idle", todo |-> <<>>, tmp |-> 0],
     irq  |-> [pc |-> "idle", todo |-> <<>>, tmp |-> 0],
     send |-> [a |-> PacketArg(NULL, CallerHdr(0, 0, in6addr_loopback), NoPayload),
               env |-> CHOOSE e \in Envs : TRUE],
     recv |-> [pkt |-> NoPayload, icmp_ret |-> 0],
     pre  |-> NoStats,
     lost |-> {}]

\* the caller holds no copy of the statistics
NoSnapshot == [held |-> FALSE, copy |-> NoStats]

\* no call is on record: the caller is between two calls
NoCall ==
    [op        |-> "none",
     net       |-> NULL,
     args      |-> NoArgs,
     dev       |-> NULL,
     hdr       |-> NoHdr,
     data      |-> NoPayload,
     pre       |-> NoStats,
     pre_errno |-> "none",
     out       |-> NoOutcome]

Init ==
    /\ ipv6_stats = NoStats
    /\ net_default_dev \in NetArgs
    /\ errno = "none"
    /\ call = NoCall
    /\ multicasts = <<>>
    /\ mc_calls = <<>>
    /\ life = NoLife
    /\ snapshot = NoSnapshot
    /\ completed = 0
    /\ race = NoRace

\* the stack sets or clears its default device (net_set_default)
NetSetDefault ==
    \E n \in NetArgs :
        /\ call.op = "none"
        /\ n # net_default_dev
        /\ net_default_dev' = n
        /\ UNCHANGED <<ipv6_stats, errno, call, multicasts, mc_calls, life, snapshot, completed, race>>

\* the caller has read the outcome of its call and goes on; a call that
\* faulted never returns.  The caller keeps the copy net_ipv6_get_stats gave
\* it over its next call, and the record of a net_ipv6_init until it has
\* read the outcome of the net_ipv6_shutdown after it.
CallerContinues ==
    /\ call.op \notin {"none", "fault"}
    /\ call' = NoCall
    /\ mc_calls' = <<>>
    /\ life' = IF life.phase = "shutdown" THEN [NoLife EXCEPT !.phase = "shutdown"]
               ELSE life
    /\ snapshot' = IF call.op = "net_ipv6_get_stats" THEN snapshot ELSE NoSnapshot
    /\ UNCHANGED <<ipv6_stats, net_default_dev, errno, multicasts, completed, race>>

SendPacketCall(args, envs, bound) ==
    \E a \in args, env \in envs :
        LET out == net_ipv6_send_packet(ipv6_stats, errno, net_default_dev,
                                        a.net, a.hdr, a.data, a.data.len, env)
        IN  /\ call.op = "none"
            /\ Counted < bound
            /\ ipv6_stats' = out.stats
            /\ errno' = out.errno
            /\ call' = CallRec("net_ipv6_send_packet", a.net, a, a.hdr, a.data,
                               ipv6_stats, errno, out)
            /\ completed' = IF select_dev(a.net, net_default_dev) = NULL
                            THEN completed ELSE completed + 1
            /\ UNCHANGED <<net_default_dev, multicasts, mc_calls, life, snapshot, race>>

SendCall(args, envs, bound) ==
    \E a \in args, env \in envs :
        LET dev == select_dev(a.net, net_default_dev)
            out == net_ipv6_send(ipv6_stats, errno, net_default_dev, a.net,
                                 a.data, a.data.len, a.hop_limit, a.proto,
                                 SrcAddr, a.dst, env)
            hdr == IF dev = NULL THEN NoHdr
                   ELSE build_hdr(dev, a.data.len, a.hop_limit, a.proto,
                                  SrcAddr, a.dst)
        IN  /\ call.op = "none"
            /\ Counted < bound
            /\ ipv6_stats' = out.stats
            /\ errno' = out.errno
            /\ call' = CallRec("net_ipv6_send", a.net, a, hdr, a.data,
                               ipv6_stats, errno, out)
            /\ completed' = IF dev = NULL THEN completed ELSE completed + 1
            /\ UNCHANGED <<net_default_dev, multicasts, mc_calls, life, snapshot, race>>

InputCall(srcs, pkts, bound) ==
    \E src \in srcs, pkt \in pkts, icmp_ret \in {0, -1} :
        LET out == net_ipv6_input(ipv6_stats, errno, src, pkt, pkt.len, icmp_ret)
        IN  /\ call.op = "none"
            /\ Counted < bound
            /\ ipv6_stats' = out.stats
            /\ errno' = out.errno
            /\ call' = CallRec("net_ipv6_input", src, NoArgs, NoHdr, pkt, ipv6_stats,
                               errno, out)
            /\ UNCHANGED <<net_default_dev, multicasts, mc_calls, life, snapshot, completed, race>>

ChecksumCall(args) ==
    \E a \in args :
        LET out == net_ipv6_checksum_pseudo(ipv6_stats, errno, a.src, a.dst,
                                            a.upper_len, a.next_hdr)
        IN  /\ call.op = "none"
            /\ ipv6_stats' = out.stats
            /\ errno' = out.errno
            /\ call' = CallRec("net_ipv6_checksum_pseudo", NULL, a, NoHdr, NoPayload,
                               ipv6_stats, errno, out)
            /\ UNCHANGED <<net_default_dev, multicasts, mc_calls, life, snapshot, completed, race>>

NetIpv6SendPacket == SendPacketCall(PacketArgs, Envs, MaxPkts)

NetIpv6Send == SendCall(SendArgs, Envs, MaxPkts)

NetIpv6Input == InputCall(NetArgs, InputPkts, MaxPkts)

NetIpv6ChecksumPseudo == ChecksumCall(ChecksumArgs)

Next ==
    \/ NetSetDefault
    \/ CallerContinues
    \/ NetIpv6SendPacket
    \/ NetIpv6Send
    \/ NetIpv6Input
    \/ NetIpv6ChecksumPseudo

Spec == Init /\ [][Next]_vars

(***************************************************************************)
(* The whole API: the calls above on a few inputs, and net_ipv6_get_stats, *)
(* net_ipv6_checksum_pseudo, net_ipv6_init and net_ipv6_shutdown.          *)
(***************************************************************************)
FewSendArgs ==
    {SendArg(NULL, Ping, 0, IPV6_HDR_ICMP, d) :
        d \in {in6addr_loopback, in6addr_linklocal_allnodes, OnLinkFirst}}

FewPacketArgs ==
    {PacketArg("bba", CallerHdr(100, IPV6_HDR_ICMP, in6addr_loopback), Ping),
     PacketArg(NULL, CallerHdr(4, IPV6_HDR_ICMP, in6addr_linklocal_allnodes), Ping)}

FewInputPkts ==
    {Zeros(0), RecvPkt(4, IPV6_HDR_ICMP, Ping, 44)}

FewChecksumArgs ==
    {a \in ChecksumArgs : a.src = SrcAddr /\ a.dst = OnLinkFirst
                            /\ a.upper_len = 1280}

FewEnvs == {e \in Envs : e.ndp_err # -1}

NoReturn == Outcome("none", NoStats, "none", <<>>, <<>>, <<>>, <<>>)

SendPacketFew == SendPacketCall(FewPacketArgs, FewEnvs, MaxPktsAll)

SendFew == SendCall(FewSendArgs, FewEnvs, MaxPktsAll)

InputFew == InputCall({NULL}, FewInputPkts, MaxPktsAll)

ChecksumFew == ChecksumCall(FewChecksumArgs)

NetIpv6GetStats ==
    LET out == net_ipv6_get_stats(ipv6_stats, errno)
    IN  /\ call.op = "none"
        /\ ipv6_stats' = out.stats
        /\ errno' = out.errno
        /\ snapshot' = [held |-> TRUE, copy |-> out.ret]
        /\ call' = CallRec("net_ipv6_get_stats", NULL, NoArgs, NoHdr, NoPayload,
                           ipv6_stats, errno, out)
        /\ UNCHANGED <<net_default_dev, multicasts, mc_calls, life, completed, race>>

\* net_ipv6_init returns: with a default device it read that device's
\* link-local address, without one whatever the read of NULL yielded
NetIpv6Init ==
    \E null_read \in NullReads :
        LET r == net_ipv6_init(multicasts, default_lladdr(net_default_dev, null_read))
        IN  /\ call.op = "none"
            /\ Len(multicasts) + 2 <= MaxGroups
            /\ multicasts' = r.multicasts
            /\ mc_calls' = r.mc_calls
            /\ life' = [phase         |-> "init",
                        dev           |-> net_default_dev,
                        before        |-> multicasts,
                        joins         |-> <<r.mc_calls[1].mac, r.mc_calls[2].mac>>,
                        reinit        |-> life.phase = "shutdown",
                        paired        |-> FALSE]
            /\ call' = CallRec("net_ipv6_init", NULL, NoArgs, NoHdr, NoPayload,
                               ipv6_stats, errno,
                               Outcome(r.ret, ipv6_stats, errno, <<>>, <<>>, <<>>, <<>>))
            /\ UNCHANGED <<ipv6_stats, net_default_dev, errno, snapshot, completed, race>>

\* net_ipv6_init without a default device, the read of NULL faulting before
\* or after the first join: the call does not return
NetIpv6InitFaults ==
    \E joined \in BOOLEAN :
        /\ call.op = "none"
        /\ net_default_dev = NULL
        /\ Len(multicasts) + 2 <= MaxGroups
        /\ multicasts' = IF joined THEN net_multicast_add(multicasts, all_nodes_mac)
                         ELSE multicasts
        /\ mc_calls' = IF joined
                       THEN <<[op |-> "net_multicast_add", mac |-> all_nodes_mac]>>
                       ELSE <<>>
        /\ call' = CallRec("fault", NULL, NoArgs, NoHdr, NoPayload, ipv6_stats,
                           errno, NoReturn)
        /\ UNCHANGED <<ipv6_stats, net_default_dev, errno, life, snapshot, completed, race>>

NetIpv6Shutdown ==
    \E null_read \in NullReads :
        LET r == net_ipv6_shutdown(multicasts, default_lladdr(net_default_dev, null_read))
        IN  /\ call.op = "none"
            /\ multicasts' = r.multicasts
            /\ mc_calls' = r.mc_calls
            /\ life' = [life EXCEPT !.phase  = "shutdown",
                                    !.paired = /\ life.phase = "init"
                                               /\ life.dev = net_default_dev
                                               /\ net_default_dev # NULL]
            /\ call' = CallRec("net_ipv6_shutdown", NULL, NoArgs, NoHdr, NoPayload,
                               ipv6_stats, errno, NoReturn)
            /\ UNCHANGED <<ipv6_stats, net_default_dev, errno, snapshot, completed, race>>

\* net_ipv6_shutdown without a default device, the read of NULL faulting
\* before or after the first leave
NetIpv6ShutdownFaults ==
    \E left \in BOOLEAN :
        /\ call.op = "none"
        /\ net_default_dev = NULL
        /\ multicasts' = IF left THEN net_multicast_del(multicasts, all_nodes_mac)
                         ELSE multicasts
        /\ mc_calls' = IF left
                       THEN <<[op |-> "net_multicast_del", mac |-> all_nodes_mac]>>
                       ELSE <<>>
        /\ call' = CallRec("fault", NULL, NoArgs, NoHdr, NoPayload, ipv6_stats,
                           errno, NoReturn)
        /\ UNCHANGED <<ipv6_stats, net_default_dev, errno, life, snapshot, completed, race>>

NextAll ==
    \/ NetSetDefault
    \/ CallerContinues
    \/ SendPacketFew
    \/ SendFew
    \/ InputFew
    \/ NetIpv6GetStats
    \/ ChecksumFew
    \/ NetIpv6Init
    \/ NetIpv6InitFaults
    \/ NetIpv6Shutdown
    \/ NetIpv6ShutdownFaults

SpecAll == Init /\ [][NextAll]_vars

(***************************************************************************)
(* One net_ipv6_send_packet in an application thread and one               *)
(* net_ipv6_input in an interrupt handler, with no lock: the handler can   *)
(* start between any two steps of the thread, and the thread goes on when  *)
(* the handler has returned.                                               *)
(***************************************************************************)
RacePacketArgs ==
    {PacketArg("bba", CallerHdr(100, IPV6_HDR_ICMP, in6addr_loopback), Ping),
     PacketArg("bba", CallerHdr(4, IPV6_HDR_ICMP, in6addr_loopback), Ping),
     PacketArg(NULL, CallerHdr(4, IPV6_HDR_ICMP, in6addr_linklocal_allnodes), Ping),
     PacketArg(NULL, CallerHdr(4, IPV6_HDR_ICMP, OnLinkFirst), Ping)}

RacePkts ==
    {Zeros(0), RecvPkt(4, IPV6_HDR_ICMP, Ping, 44), RecvPkt(100, 17, Zeros(50), 90)}

InHandler == race.irq.pc \in {"read", "write"}

\* where a call is after an increment, or with none to make
AfterIncrements(todo) == IF todo = <<>> THEN "done" ELSE "read"

ThreadCallsSendPacket ==
    \E a \in RacePacketArgs, env \in Envs :
        LET todo == send_packet_increments(net_default_dev, a.net, a.hdr, a.data,
                                           a.data.len, env)
        IN  /\ call.op = "none"
            /\ race.thr.pc = "idle"
            /\ ~InHandler
            /\ race' = [race EXCEPT !.thr  = [pc   |-> AfterIncrements(todo),
                                              todo |-> todo,
                                              tmp  |-> 0],
                                    !.send = [a |-> a, env |-> env]]
            /\ UNCHANGED <<ipv6_stats, net_default_dev, errno, call, multicasts,
                           mc_calls, life, snapshot, completed>>

\* the load of ++ipv6_stats.c (and errno = ENETUNREACH, which comes before
\* ++pkt_send_failed when the resolver returned -1)
ThreadLoads ==
    LET c == Head(race.thr.todo)
    IN  /\ race.thr.pc = "read"
        /\ ~InHandler
        /\ race' = [race EXCEPT !.thr.pc  = "write",
                                !.thr.tmp = load_counter(ipv6_stats, c)]
        /\ errno' = IF c = "pkt_send_failed" /\ race.send.env.ndp_err = -1
                    THEN ENETUNREACH ELSE errno
        /\ UNCHANGED <<ipv6_stats, net_default_dev, call, multicasts, mc_calls,
                       life, snapshot, completed>>

\* the store of ++ipv6_stats.c
ThreadStores ==
    LET c == Head(race.thr.todo)
    IN  /\ race.thr.pc = "write"
        /\ ~InHandler
        /\ ipv6_stats' = store_counter(ipv6_stats, c, race.thr.tmp)
        /\ race' = [race EXCEPT !.thr.todo = Tail(@),
                                !.thr.pc   = AfterIncrements(Tail(race.thr.todo))]
        /\ completed' = IF Tail(race.thr.todo) = <<>> THEN completed + 1
                        ELSE completed
        /\ UNCHANGED <<net_default_dev, errno, call, multicasts, mc_calls, life,
                       snapshot>>

InterruptCallsInput ==
    \E pkt \in RacePkts, icmp_ret \in {0, -1} :
        LET todo == input_increments(pkt, pkt.len)
        IN  /\ call.op = "none"
            /\ race.irq.pc = "idle"
            /\ race' = [race EXCEPT !.irq  = [pc   |-> AfterIncrements(todo),
                                              todo |-> todo,
                                              tmp  |-> 0],
                                    !.recv = [pkt |-> pkt, icmp_ret |-> icmp_ret]]
            /\ UNCHANGED <<ipv6_stats, net_default_dev, errno, call, multicasts,
                           mc_calls, life, snapshot, completed>>

InterruptLoads ==
    LET c == Head(race.irq.todo)
    IN  /\ race.irq.pc = "read"
        /\ race' = [race EXCEPT !.irq.pc  = "write",
                                !.irq.tmp = load_counter(ipv6_stats, c)]
        /\ UNCHANGED <<ipv6_stats, net_default_dev, errno, call, multicasts,
                       mc_calls, life, snapshot, completed>>

\* the handler's store; it is lost when the thread has loaded the same
\* counter and not yet stored it
InterruptStores ==
    LET c == Head(race.irq.todo)
    IN  /\ race.irq.pc = "write"
        /\ ipv6_stats' = store_counter(ipv6_stats, c, race.irq.tmp)
        /\ race' = [race EXCEPT !.irq.todo = Tail(@),
                                !.irq.pc   = AfterIncrements(Tail(race.irq.todo)),
                                !.lost     = IF /\ race.thr.pc = "write"
                                                /\ Head(race.thr.todo) = c
                                             THEN @ \cup {c} ELSE @]
        /\ UNCHANGED <<net_default_dev, errno, call, multicasts, mc_calls, life,
                       snapshot, completed>>

NextRace ==
    \/ ThreadCallsSendPacket
    \/ ThreadLoads
    \/ ThreadStores
    \/ InterruptCallsInput
    \/ InterruptLoads
    \/ InterruptStores

SpecRace == Init /\ [][NextRace]_vars

(***************************************************************************)
(* Properties of net_ipv6_send_packet and net_ipv6_send.  In a state where  *)
(* call.op names a function, that call has just returned: call.pre holds   *)
(* the statistics before it and ipv6_stats the statistics after it.        *)
(***************************************************************************)
SendReturned == call.op \in {"net_ipv6_send_packet", "net_ipv6_send"}

\* a send that found an interface, the one passed or the default
SendWithDev == SendReturned /\ (call.net # NULL \/ net_default_dev # NULL)

Unicast(a) == a # in6addr_loopback /\ a[1] # 255

\* C1: a send to ::1 with an interface available adds exactly 1 to the sent
\* counter, calls net_ipv6_input exactly once with source interface NULL and
\* the 40-byte header followed by the payload (size 40 + data_size), calls
\* neither the neighbor resolver nor the transmit, and returns 0.
C1_LoopbackSend ==
    (SendWithDev /\ call.hdr.dst_addr = in6addr_loopback) =>
        /\ ipv6_stats.pkt_sent = call.pre.pkt_sent + 1
        /\ Len(call.out.input_calls) = 1
        /\ call.out.input_calls[1].src = NULL
        /\ call.out.input_calls[1].pktsize = 40 + call.data.len
        /\ call.out.input_calls[1].pkt.len = 40 + call.data.len
        /\ Slice(call.out.input_calls[1].pkt, 1, 40) = hdr_bytes(call.hdr)
        /\ At(call.out.input_calls[1].pkt, 7) = call.hdr.next_header
        /\ Slice(call.out.input_calls[1].pkt, 41, 40 + call.data.len) = call.data
        /\ call.out.ndp_calls = <<>>
        /\ call.out.tx_calls = <<>>
        /\ call.out.ret = 0

\* "PING" with next-header 58 sent to ::1 has come back through net_ipv6_input
C1_Witness ==
    /\ call.op = "net_ipv6_send"
    /\ call.net = NULL
    /\ net_default_dev = "lan"
    /\ call.hdr.dst_addr = in6addr_loopback
    /\ call.data = Ping
    /\ Len(call.out.input_calls) = 1
    /\ At(call.out.input_calls[1].pkt, 7) = 58
    /\ ToSeq(Slice(call.out.input_calls[1].pkt, 41, 44)) = <<80, 73, 78, 71>>
    /\ ipv6_stats.pkt_sent = call.pre.pkt_sent + 1
    /\ call.out.ret = 0

\* C2: for every multicast destination M the one frame transmitted goes to
\* 33:33 followed by bytes 12..15 of M, and the neighbor resolver is not called.
C2_MulticastMac ==
    (SendWithDev /\ call.hdr.dst_addr[1] = 255) =>
        /\ call.out.ndp_calls = <<>>
        /\ Len(call.out.tx_calls) = 1
        /\ ToSeq(Slice(call.out.tx_calls[1].data, 1, 6))
             = <<51, 51>> \o SubSeq(call.hdr.dst_addr, 13, 16)

\* a send to ff02::1 has transmitted a frame to 33:33:00:00:00:01, ethertype 86DD
C2_Witness ==
    /\ SendWithDev
    /\ call.hdr.dst_addr = in6addr_linklocal_allnodes
    /\ Len(call.out.tx_calls) = 1
    /\ ToSeq(Slice(call.out.tx_calls[1].data, 1, 6)) = <<51, 51, 0, 0, 0, 1>>
    /\ ToSeq(Slice(call.out.tx_calls[1].data, 13, 14)) = <<134, 221>>

\* the destination is link-local or shares its first 8 bytes with one of the
\* interface's ip6_addr_count addresses
OnLink(dev, d) ==
    \/ (d[1] = 254 /\ d[2] \in 128..191)
    \/ \E i \in 1..NetIf[dev].ip6_addr_count :
          \A k \in 1..8 : d[k] = NetIf[dev].ip6_addrs[i][k]

\* C3: for a unicast destination D the neighbor resolver is asked for D when
\* D is on-link and for the interface's gateway otherwise; the header passed
\* on and the header transmitted keep D as destination.
C3_NextHop ==
    (SendWithDev /\ Unicast(call.hdr.dst_addr)) =>
        /\ Len(call.out.ndp_calls) = 1
        /\ call.out.ndp_calls[1].ip
             = IF OnLink(call.out.ndp_calls[1].net, call.hdr.dst_addr)
               THEN call.hdr.dst_addr
               ELSE NetIf[call.out.ndp_calls[1].net].ip6_gateway
        /\ call.out.ndp_calls[1].hdr.dst_addr = call.hdr.dst_addr
        /\ \A i \in 1..Len(call.out.tx_calls) :
              ToSeq(Slice(call.out.tx_calls[i].data, 39, 54)) = call.hdr.dst_addr

\* a destination matching only the second configured prefix was resolved as
\* itself and transmitted
C3_Witness ==
    /\ SendWithDev
    /\ call.hdr.dst_addr = OnLinkSecond
    /\ Len(call.out.ndp_calls) = 1
    /\ call.out.ndp_calls[1].net = "bba"
    /\ call.out.ndp_calls[1].ip = OnLinkSecond
    /\ Len(call.out.tx_calls) = 1

\* C4: when the resolver returns -1 the send adds exactly 1 to send-failed,
\* leaves sent unchanged, does not transmit, returns -1 and sets errno to
\* ENETUNREACH.
C4_Unreachable ==
    (SendReturned /\ call.out.ndp_calls # <<>> /\ call.out.ndp_calls[1].ret = -1) =>
        /\ ipv6_stats.pkt_send_failed = call.pre.pkt_send_failed + 1
        /\ ipv6_stats.pkt_sent = call.pre.pkt_sent
        /\ call.out.tx_calls = <<>>
        /\ call.out.ret = -1
        /\ errno = ENETUNREACH

\* the resolver has failed while errno was not yet ENETUNREACH
C4_Witness ==
    /\ SendReturned
    /\ call.out.ndp_calls # <<>>
    /\ call.out.ndp_calls[1].ret = -1
    /\ call.pre_errno # ENETUNREACH
    /\ errno = ENETUNREACH
    /\ call.out.ret = -1

\* C5: when the resolver returns -2 the send adds exactly 1 to send-failed,
\* leaves sent unchanged, does not transmit and returns -2, a status that is
\* neither 0 nor -1.
C5_Pending ==
    (SendReturned /\ call.out.ndp_calls # <<>> /\ call.out.ndp_calls[1].ret = -2) =>
        /\ ipv6_stats.pkt_send_failed = call.pre.pkt_send_failed + 1
        /\ ipv6_stats.pkt_sent = call.pre.pkt_sent
        /\ call.out.tx_calls = <<>>
        /\ call.out.ret = -2
        /\ call.out.ret \notin {0, -1}

\* the resolver has queued the packet of a unicast send
C5_Witness ==
    /\ SendReturned
    /\ call.out.ndp_calls # <<>>
    /\ call.out.ndp_calls[1].ret = -2
    /\ call.out.ret = -2
    /\ ipv6_stats.pkt_send_failed = call.pre.pkt_send_failed + 1

\* the link-layer destination of a send that reaches frame assembly
FrameDst ==
    IF call.hdr.dst_addr[1] = 255
    THEN <<51, 51>> \o SubSeq(call.hdr.dst_addr, 13, 16)
    ELSE call.out.ndp_calls[1].mac

Transmitting ==
    /\ SendWithDev
    /\ call.hdr.dst_addr # in6addr_loopback
    /\ (call.hdr.dst_addr[1] = 255
        \/ (call.out.ndp_calls # <<>> /\ call.out.ndp_calls[1].ret = 0))

\* C6: on the multicast path and on the unicast path with resolver success
\* the send transmits exactly once, blocking, 14 + 40 + data_size bytes laid
\* out as destination MAC, the interface's MAC, 86 DD, the 40-byte header and
\* the payload; it adds exactly 1 to sent and returns 0.
C6_Frame ==
    Transmitting =>
        /\ Len(call.out.tx_calls) = 1
        /\ call.out.tx_calls[1].mode = NETIF_BLOCK
        /\ call.out.tx_calls[1].len = 14 + 40 + call.data.len
        /\ call.out.tx_calls[1].data.len = 14 + 40 + call.data.len
        /\ ToSeq(Slice(call.out.tx_calls[1].data, 1, 6)) = FrameDst
        /\ ToSeq(Slice(call.out.tx_calls[1].data, 7, 12))
             = NetIf[call.out.tx_calls[1].net].mac_addr
        /\ ToSeq(Slice(call.out.tx_calls[1].data, 13, 14)) = <<134, 221>>
        /\ Slice(call.out.tx_calls[1].data, 15, 54) = hdr_bytes(call.hdr)
        /\ Slice(call.out.tx_calls[1].data, 55, 54 + call.data.len) = call.data
        /\ ipv6_stats.pkt_sent = call.pre.pkt_sent + 1
        /\ ipv6_stats.pkt_send_failed = call.pre.pkt_send_failed
        /\ call.out.ret = 0

\* a resolved unicast "PING" has been transmitted from bba to the resolver's MAC
C6_Witness ==
    /\ Transmitting
    /\ Unicast(call.hdr.dst_addr)
    /\ call.data = Ping
    /\ Len(call.out.tx_calls) = 1
    /\ call.out.tx_calls[1].net = "bba"
    /\ call.out.tx_calls[1].len = 58
    /\ ToSeq(Slice(call.out.tx_calls[1].data, 1, 14))
         = MacB \o <<0, 208, 240, 18, 52, 86, 134, 221>>
    /\ ToSeq(Slice(call.out.tx_calls[1].data, 55, 58)) = <<80, 73, 78, 71>>

\* C7: a failure reported by the interface's transmit is the return status
\* of the send, and transmit is called at most once per send.
C7_TxFailureSurfaced ==
    (SendReturned /\ call.out.tx_calls # <<>> /\ call.out.tx_calls[1].ret # 0) =>
        /\ call.out.ret = call.out.tx_calls[1].ret
        /\ Len(call.out.tx_calls) = 1

\* the interface that a send without interface argument falls back to
UsedDev == IF call.net # NULL THEN call.net ELSE net_default_dev

FirstNonZero(a, b, c) == IF a # 0 THEN a ELSE IF b # 0 THEN b ELSE c

\* C8: for every int hop_limit argument and every interface default, the
\* hop-limit field of the header net_ipv6_send builds is the first non-zero
\* value of the argument, the interface's hop_limit and 255.
C8_HopLimit ==
    (call.op = "net_ipv6_send" /\ UsedDev # NULL) =>
        call.hdr.hop_limit
          = FirstNonZero(call.args.hop_limit, NetIf[UsedDev].hop_limit, 255)

\* C9: for every data_size the payload-length field of the header
\* net_ipv6_send builds, read in network byte order, equals data_size; the
\* version is 6, traffic class and flow label are 0, next-header is proto and
\* the addresses are the ones given.
C9_HeaderFields ==
    (call.op = "net_ipv6_send" /\ UsedDev # NULL) =>
        LET b == hdr_bytes(call.hdr)
        IN  /\ b.len = 40
            /\ At(b, 5) * 256 + At(b, 6) = call.data.len
            /\ At(b, 1) \div 16 = 6
            /\ (At(b, 1) % 16) * 16 + (At(b, 2) \div 16) = 0
            /\ (At(b, 2) % 16) * 65536 + At(b, 3) * 256 + At(b, 4) = 0
            /\ At(b, 7) = call.args.proto
            /\ [i \in 1..16 |-> At(b, 8 + i)] = SrcAddr
            /\ [i \in 1..16 |-> At(b, 24 + i)] = call.args.dst

\* the destination a send was called with
CallDst ==
    IF call.op = "net_ipv6_send" THEN call.args.dst ELSE call.args.hdr.dst_addr

\* C10: with no interface passed and no default device both send functions
\* return -1 for every destination, change no counter and call neither
\* net_ipv6_input, the resolver nor a transmit; with no interface passed and a
\* default device, the send goes through the default device.
C10_NoDevice ==
    /\ (SendReturned /\ call.net = NULL /\ net_default_dev = NULL) =>
          /\ call.out.ret = -1
          /\ ipv6_stats = call.pre
          /\ call.out.input_calls = <<>>
          /\ call.out.ndp_calls = <<>>
          /\ call.out.tx_calls = <<>>
          /\ call.out.icmp_calls = <<>>
    /\ (SendReturned /\ call.net = NULL /\ net_default_dev # NULL) =>
          /\ Len(call.out.input_calls) + Len(call.out.ndp_calls)
               + Len(call.out.tx_calls) > 0
          /\ (CallDst = in6addr_loopback) = (call.out.input_calls # <<>>)
          /\ \A i \in 1..Len(call.out.ndp_calls) :
                call.out.ndp_calls[i].net = net_default_dev
          /\ \A i \in 1..Len(call.out.tx_calls) :
                /\ call.out.tx_calls[i].net = net_default_dev
                /\ ToSeq(Slice(call.out.tx_calls[i].data, 7, 12))
                     = NetIf[net_default_dev].mac_addr

\* a send to ::1 without any device has been refused
C10_Witness ==
    /\ SendReturned
    /\ call.net = NULL
    /\ net_default_dev = NULL
    /\ CallDst = in6addr_loopback
    /\ call.out.ret = -1
    /\ ipv6_stats = call.pre

(***************************************************************************)
(* Properties of net_ipv6_input, for the calls a driver makes.             *)
(***************************************************************************)
InputReturned == call.op = "net_ipv6_input"

\* the payload-length field of the received bytes, read in network order
DeclaredLen == At(call.data, 5) * 256 + At(call.data, 6)

\* C11: net_ipv6_input on a buffer shorter than the 40-byte header returns
\* -1, adds exactly 1 to the bad-size counter and does not call the ICMPv6
\* handler; nothing of its outcome depends on the bytes of the buffer.
C11_TooSmall ==
    (InputReturned /\ call.data.len < 40) =>
        /\ call.out.ret = -1
        /\ ipv6_stats.pkt_recv_bad_size = call.pre.pkt_recv_bad_size + 1
        /\ ipv6_stats.pkt_sent = call.pre.pkt_sent
        /\ ipv6_stats.pkt_send_failed = call.pre.pkt_send_failed
        /\ call.out.icmp_calls = <<>>
        /\ call.out
             = Outcome(-1, [call.pre EXCEPT !.pkt_recv_bad_size = @ + 1],
                       call.pre_errno, <<>>, <<>>, <<>>, <<>>)

\* 39 bytes that start like an ICMPv6 header with an empty payload were dropped
C11_Witness ==
    /\ InputReturned
    /\ call.data.len = 39
    /\ At(call.data, 7) = 58
    /\ DeclaredLen = 0
    /\ call.out.ret = -1
    /\ ipv6_stats.pkt_recv_bad_size = call.pre.pkt_recv_bad_size + 1

\* C12: on a buffer of at least 40 bytes whose declared payload length L has
\* L + 40 > size, net_ipv6_input returns an error, adds exactly 1 to the
\* bad-size counter, leaves sent and send-failed alone and does not call the
\* ICMPv6 handler, whatever the next-header.
C12_LengthMismatch ==
    (InputReturned /\ call.data.len >= 40 /\ DeclaredLen + 40 > call.data.len) =>
        /\ call.out.ret = -1
        /\ ipv6_stats.pkt_recv_bad_size = call.pre.pkt_recv_bad_size + 1
        /\ ipv6_stats.pkt_sent = call.pre.pkt_sent
        /\ ipv6_stats.pkt_send_failed = call.pre.pkt_send_failed
        /\ call.out.icmp_calls = <<>>

\* a 50-byte ICMPv6 packet declaring a payload of 100 bytes (140 in all) was dropped
C12_Witness ==
    /\ InputReturned
    /\ call.data.len = 50
    /\ DeclaredLen = 100
    /\ At(call.data, 7) = 58
    /\ call.out.ret = -1
    /\ ipv6_stats.pkt_recv_bad_size = call.pre.pkt_recv_bad_size + 1

\* C13: on a buffer that passes both size checks, net_ipv6_input calls the
\* ICMPv6 handler exactly once iff next-header is ICMPv6, with the source
\* interface, the header, the payload at offset 40 and length L, and returns
\* the handler's status; for another next-header it returns -1, calls no
\* handler and changes no counter.
C13_Dispatch ==
    (InputReturned /\ call.data.len >= 40 /\ DeclaredLen + 40 <= call.data.len) =>
        IF At(call.data, 7) = 58
        THEN /\ Len(call.out.icmp_calls) = 1
             /\ call.out.icmp_calls[1].src = call.net
             /\ hdr_bytes(call.out.icmp_calls[1].ip) = Slice(call.data, 1, 40)
             /\ call.out.icmp_calls[1].size = DeclaredLen
             /\ call.out.icmp_calls[1].data
                  = Slice(call.data, 41, 40 + DeclaredLen)
             /\ call.out.ret = call.out.icmp_calls[1].ret
             /\ ipv6_stats = call.pre
        ELSE /\ call.out.ret = -1
             /\ call.out.icmp_calls = <<>>
             /\ ipv6_stats = call.pre

\* a 44-byte ICMPv6 packet declaring 2 payload bytes reached the handler of
\* interface bba with those 2 bytes, and the handler's 0 was returned
C13_Witness ==
    /\ InputReturned
    /\ call.net = "bba"
    /\ call.data.len = 44
    /\ DeclaredLen = 2
    /\ Len(call.out.icmp_calls) = 1
    /\ call.out.icmp_calls[1].size = 2
    /\ ToSeq(call.out.icmp_calls[1].data) = <<80, 73>>
    /\ call.out.icmp_calls[1].ret = 0
    /\ call.out.ret = 0

(***************************************************************************)
(* The pseudo-header checksum.                                             *)
(***************************************************************************)
ChecksumReturned == call.op = "net_ipv6_checksum_pseudo"

\* the four bytes of x, most significant first
BigEndian32(x) ==
    <<(x \div 16777216) % 256, (x \div 65536) % 256, (x \div 256) % 256, x % 256>>

\* C14: net_ipv6_checksum_pseudo returns the 16-bit complement of the checksum
\* primitive, started at 0, over these 40 bytes: the source address, the
\* destination address, the upper-layer length as four bytes in network
\* order, three zero bytes, the next-header byte.
C14_PseudoChecksum ==
    ChecksumReturned =>
        LET a      == call.args
            layout == FromSeq(a.src \o a.dst \o BigEndian32(a.upper_len)
                              \o <<0, 0, 0>> \o <<a.next_hdr>>)
        IN  /\ layout.len = 16 + 16 + 4 + 3 + 1
            /\ call.out.ret = 65535 - net_ipv4_checksum(layout, layout.len, 0)

\* a checksum over a length whose four bytes all differ
C14_Witness ==
    /\ ChecksumReturned
    /\ call.args.src = SrcAddr
    /\ call.args.dst = in6addr_linklocal_allnodes
    /\ call.args.upper_len = 16909060
    /\ call.args.next_hdr = IPV6_HDR_ICMP
    /\ call.out.ret = 3633

\* C15: net_ipv6_checksum_pseudo is a function of its arguments alone and has
\* no side effect: whatever the state it is called in, it returns what the
\* same call returns at startup, and it changes neither the statistics nor
\* the multicast membership (nor anything else of the layer).
C15_ChecksumPure ==
    [][call'.op = "net_ipv6_checksum_pseudo" =>
          /\ call'.out.ret
                = net_ipv6_checksum_pseudo(NoStats, "none", call'.args.src,
                                           call'.args.dst, call'.args.upper_len,
                                           call'.args.next_hdr).ret
          /\ mc_calls' = <<>>
          /\ UNCHANGED <<ipv6_stats, multicasts, net_default_dev, errno, life,
                         snapshot>>]_vars

\* a checksum computed after a packet was counted and groups were joined
C15_Witness ==
    /\ ChecksumReturned
    /\ ipv6_stats.pkt_sent > 0
    /\ multicasts # <<>>

(***************************************************************************)
(* Initialisation and shutdown.                                            *)
(***************************************************************************)
InitReturned == call.op = "net_ipv6_init"

ShutdownReturned == call.op = "net_ipv6_shutdown"

\* C16: with a default interface, net_ipv6_init makes exactly two joins, in
\* this order: the all-nodes group 33:33:00:00:00:01, then the solicited-node
\* group 33:33:FF followed by bytes 13, 14 and 15 of the default interface's
\* link-local address; it returns 0.
C16_InitJoins ==
    InitReturned /\ net_default_dev # NULL =>
        LET lladdr == NetIf[net_default_dev].ip6_lladdr
        IN  /\ call.out.ret = 0
            /\ Len(mc_calls) = 2
            /\ mc_calls[1] = [op  |-> "net_multicast_add",
                              mac |-> <<51, 51, 0, 0, 0, 1>>]
            /\ mc_calls[2] = [op  |-> "net_multicast_add",
                              mac |-> <<51, 51, 255>> \o SubSeq(lladdr, 14, 16)]

\* net_ipv6_init on the interface whose address ends in 12:34:56
C16_Witness ==
    /\ InitReturned
    /\ net_default_dev = "bba"
    /\ mc_calls[2].mac = <<51, 51, 255, 18, 52, 86>>

\* C17: a net_ipv6_shutdown that follows a net_ipv6_init on the same default
\* interface leaves the two groups that init joined, in the same order, and
\* the membership after it is the membership before that init.
C17_ShutdownMirrorsInit ==
    ShutdownReturned /\ life.paired =>
        /\ Len(mc_calls) = 2
        /\ \A i \in 1..2 : /\ mc_calls[i].op = "net_multicast_del"
                           /\ mc_calls[i].mac = life.joins[i]
        /\ multicasts = life.before
        /\ {multicasts[i] : i \in 1..Len(multicasts)}
              = {life.before[i] : i \in 1..Len(life.before)}

\* an init and its shutdown, where a group was already joined before the init
C17_Witness ==
    /\ ShutdownReturned
    /\ life.paired
    /\ life.before # <<>>
    /\ multicasts = life.before
    /\ mc_calls[2].mac = life.joins[2]

(***************************************************************************)
(* The statistics.                                                         *)
(***************************************************************************)
SendOps == {"net_ipv6_send_packet", "net_ipv6_send"}

\* C18: pkt_sent and pkt_send_failed change only in a call of
\* net_ipv6_send_packet (made directly or by net_ipv6_send), and
\* pkt_recv_bad_size only in net_ipv6_input (called directly or by a loopback
\* send); net_ipv6_get_stats returns the counters as they are and changes
\* nothing; a copy it returned is not changed by a later call.
C18_StatsOwnership ==
    [][/\ (\/ ipv6_stats'.pkt_sent # ipv6_stats.pkt_sent
           \/ ipv6_stats'.pkt_send_failed # ipv6_stats.pkt_send_failed)
          => call'.op \in SendOps
       /\ ipv6_stats'.pkt_recv_bad_size # ipv6_stats.pkt_recv_bad_size
          => \/ call'.op = "net_ipv6_input"
             \/ call'.op \in SendOps /\ call'.out.input_calls # <<>>
       /\ call'.op = "net_ipv6_get_stats" /\ call.op = "none"
          => /\ call'.out.ret = ipv6_stats
             /\ snapshot' = [held |-> TRUE, copy |-> ipv6_stats]
             /\ UNCHANGED <<ipv6_stats, multicasts, net_default_dev, errno>>
       /\ snapshot.held /\ call'.op \notin {"none", "net_ipv6_get_stats"}
          => snapshot' = snapshot]_vars

\* a send counted a packet after the caller took a copy: the copy still
\* holds the counters from before the send
C18_Witness ==
    /\ call.op \in SendOps
    /\ snapshot.held
    /\ snapshot.copy = call.pre
    /\ snapshot.copy # ipv6_stats

\* C19: when net_ipv6_init returns after a net_ipv6_shutdown, the three
\* counters are zero, so that net_ipv6_get_stats returns zeros.
C19_InitResetsStats ==
    InitReturned /\ life.reinit =>
        net_ipv6_get_stats(ipv6_stats, errno).ret = NoStats

\* C20: a send whose frame (Ethernet header, IPv6 header, payload) is larger
\* than the MTU of the interface returns an error, counts nothing and
\* transmits nothing.
C20_MtuBound ==
    SendWithDev /\ sizeof_eth_hdr_t + sizeof_ipv6_hdr_t + call.data.len
                      > NetIf[call.dev].mtu6 =>
        /\ call.out.ret # 0
        /\ ipv6_stats = call.pre
        /\ call.out.tx_calls = <<>>

(***************************************************************************)
(* The loopback send and the result of its delivery.                       *)
(***************************************************************************)
\* a send to ::1 whose call of net_ipv6_input returned an error
LoopbackDeliveryFailed ==
    /\ SendWithDev
    /\ call.hdr.dst_addr = in6addr_loopback
    /\ Len(call.out.input_calls) = 1
    /\ call.out.input_calls[1].ret # 0

\* the payload length the looped-back header declares is more than the
\* bytes that follow the header
LoopbackLengthMismatch ==
    LET in == call.out.input_calls[1]
    IN  At(in.pkt, 5) * 256 + At(in.pkt, 6) + 40 > in.pktsize

\* C23 as stated: whenever net_ipv6_input returns an error for the
\* looped-back packet, the send returns 0, sent grows by 1, and send-failed
\* and recv-bad-size are unchanged.
C23_LoopbackIgnoresDelivery ==
    LoopbackDeliveryFailed =>
        /\ call.out.ret = 0
        /\ ipv6_stats.pkt_sent = call.pre.pkt_sent + 1
        /\ ipv6_stats.pkt_send_failed = call.pre.pkt_send_failed
        /\ ipv6_stats.pkt_recv_bad_size = call.pre.pkt_recv_bad_size

\* C23 amended: whenever net_ipv6_input returns an error for the looped-back
\* packet, the send returns 0, sent grows by 1 and send-failed is unchanged;
\* recv-bad-size is unchanged when the error comes from the dispatch, and
\* grows by 1 when the header declares more payload than was passed.
C23_LoopbackIgnoresDispatchError ==
    LoopbackDeliveryFailed =>
        /\ call.out.ret = 0
        /\ ipv6_stats.pkt_sent = call.pre.pkt_sent + 1
        /\ ipv6_stats.pkt_send_failed = call.pre.pkt_send_failed
        /\ ipv6_stats.pkt_recv_bad_size
              = call.pre.pkt_recv_bad_size
                + (IF LoopbackLengthMismatch THEN 1 ELSE 0)

\* a well-sized packet with next-header 17 looped back: net_ipv6_input
\* returned -1, the send returned 0
C23_Witness ==
    /\ LoopbackDeliveryFailed
    /\ ~LoopbackLengthMismatch
    /\ At(call.out.input_calls[1].pkt, 7) = 17
    /\ call.out.input_calls[1].ret = -1
    /\ call.out.ret = 0
    /\ ipv6_stats.pkt_sent = call.pre.pkt_sent + 1
    /\ ipv6_stats.pkt_recv_bad_size = call.pre.pkt_recv_bad_size

(***************************************************************************)
(* The accounting of the sends.                                            *)
(***************************************************************************)
\* C22: every call of net_ipv6_send_packet that has an interface adds 1 to
\* exactly one of pkt_sent and pkt_send_failed and leaves the other as it
\* was, so pkt_sent + pkt_send_failed is the number of such calls completed;
\* a call that returns 0 added 1 to pkt_sent.
C22_SendAccounting ==
    /\ ipv6_stats.pkt_sent + ipv6_stats.pkt_send_failed = completed
    /\ SendWithDev =>
          LET sent   == ipv6_stats.pkt_sent - call.pre.pkt_sent
              failed == ipv6_stats.pkt_send_failed - call.pre.pkt_send_failed
          IN  /\ \/ sent = 1 /\ failed = 0
                 \/ sent = 0 /\ failed = 1
              /\ call.out.ret = 0 => sent = 1
              /\ call.out.ret # 0 => failed = 1

\* two calls completed, one counted as sent and one, refused by the
\* neighbor resolver, as failed
C22_Witness ==
    /\ SendWithDev
    /\ completed = 2
    /\ ipv6_stats.pkt_sent = 1
    /\ ipv6_stats.pkt_send_failed = 1
    /\ call.out.ret = -2

(***************************************************************************)
(* Send and input at once.                                                 *)
(***************************************************************************)
RaceDone == race.thr.pc = "done" /\ race.irq.pc = "done"

\* the counters after the send, then the input, one after the other
SendThenInput ==
    LET a == race.send.a
        s == net_ipv6_send_packet(race.pre, "none", net_default_dev, a.net, a.hdr,
                                  a.data, a.data.len, race.send.env)
    IN  net_ipv6_input(s.stats, s.errno, NULL, race.recv.pkt, race.recv.pkt.len,
                       race.recv.icmp_ret).stats

\* the counters after the input, then the send, one after the other
InputThenSend ==
    LET a == race.send.a
        i == net_ipv6_input(race.pre, "none", NULL, race.recv.pkt,
                            race.recv.pkt.len, race.recv.icmp_ret)
    IN  net_ipv6_send_packet(i.stats, i.errno, net_default_dev, a.net, a.hdr,
                             a.data, a.data.len, race.send.env).stats

\* C21: nothing locks the statistics, so one send and one input running at
\* once can lose an increment.  When the input's store of a counter falls
\* between the send's load and store of the same counter, that counter ends
\* one below its value under both serial orders, so the statistics differ
\* from those of every serial order; in every other interleaving they are
\* those of both serial orders.
C21_LostUpdate ==
    RaceDone =>
        /\ race.lost = {} => ipv6_stats = SendThenInput /\ ipv6_stats = InputThenSend
        /\ race.lost # {} =>
              /\ ipv6_stats # SendThenInput
              /\ ipv6_stats # InputThenSend
              /\ \A c \in race.lost :
                    /\ ipv6_stats[c] = SendThenInput[c] - 1
                    /\ ipv6_stats[c] = InputThenSend[c] - 1

\* a loopback send of a header declaring 100 bytes and an empty input, both
\* counting a bad size: the counter is 1 where every serial order gives 2
C21_Witness ==
    /\ RaceDone
    /\ race.lost = {"pkt_recv_bad_size"}
    /\ ipv6_stats.pkt_recv_bad_size = 1
    /\ SendThenInput.pkt_recv_bad_size = 2
    /\ InputThenSend.pkt_recv_bad_size = 2
    /\ ipv6_stats.pkt_sent = 1

====
